---- MODULE Spec2Model ----
(***************************************************************************)
(* A model of vocab_bot.py: the flat-file word store, the bulk generation  *)
(* routine with its reply parser, the message chunker, the chat command    *)
(* handlers, the daily practice coroutine and the scheduler thread.        *)
(***************************************************************************)
EXTENDS Integers, Sequences, FiniteSets, TLC

VARIABLES
    bg_pc, bg_words, bg_reply, bg_out,      \* one call of bulk_generate
    cm_pc, cm_entries, cm_budget, cm_out,   \* one call of chunk_messages
    store,          \* english_words.json: the list of entries
    chat_file,      \* user_chat_id.txt: the chat id, 0 while the file is absent
    saves,          \* number of save_words calls so far
    nops,           \* number of updates handled and daily runs started so far
    h,              \* the command handler the application is running
    d,              \* the send_daily_practice coroutine
    s_pc,           \* the scheduler thread: its position in schedule_daily_practice
    now,            \* the wall clock, in polls of the scheduler since midnight of day 0
    next_run,       \* the time the daily job is due
    firings         \* the times at which the daily job was started

bg_vars == <<bg_pc, bg_words, bg_reply, bg_out>>
cm_vars == <<cm_pc, cm_entries, cm_budget, cm_out>>
file_vars == <<store, chat_file, saves>>
bot_vars == <<file_vars, nops, h, d>>
sched_vars == <<s_pc, now, next_run, firings>>
vars == <<bg_vars, cm_vars, bot_vars, sched_vars>>

(***************************************************************************)
(* Text.  A Python str is a sequence of pieces [t, n]: n consecutive       *)
(* copies of the character t, or one literal piece of n characters (a      *)
(* block-start marker "[k]." or the fixed prefix of a placeholder).  The   *)
(* representation is canonical (no empty piece, no two adjacent runs of    *)
(* the same character), so equal strings are equal sequences.              *)
(***************************************************************************)
MarkerNames == <<"[1].", "[2].", "[3].", "[4].", "[5].", "[6].", "[7].", "[8].", "[9].">>
Markers == {MarkerNames[k] : k \in 1..Len(MarkerNames)}
Literals == Markers \cup {"MISSING", "APIERR"}
Space == {"\n", " "}
Lowercase == {"a", "b", "c", "d"}
Uppercase == {"A", "B"}

P(t, n) == [t |-> t, n |-> n]

RECURSIVE Norm(_)
Norm(s) ==
    IF s = <<>> THEN <<>>
    ELSE LET p == Head(s)
             r == Norm(Tail(s))
         IN  IF p.n = 0 THEN r
             ELSE IF r # <<>> /\ r[1].t = p.t /\ p.t \notin Literals
                  THEN <<P(p.t, p.n + r[1].n)>> \o Tail(r)
                  ELSE <<p>> \o r

Cat(s, t) == Norm(s \o t)

RECURSIVE StrLen(_)
StrLen(s) == IF s = <<>> THEN 0 ELSE Head(s).n + StrLen(Tail(s))

RECURSIVE LStrip(_)
LStrip(s) ==
    IF s = <<>> THEN <<>>
    ELSE IF Head(s).t \in Space THEN LStrip(Tail(s)) ELSE s

RECURSIVE RStrip(_)
RStrip(s) ==
    IF s = <<>> THEN <<>>
    ELSE IF s[Len(s)].t \in Space THEN RStrip(SubSeq(s, 1, Len(s) - 1)) ELSE s

\* str.strip()
Strip(s) == RStrip(LStrip(s))

\* s[:k]
RECURSIVE Slice(_, _)
Slice(s, k) ==
    IF s = <<>> \/ k <= 0 THEN <<>>
    ELSE IF Head(s).n <= k THEN <<Head(s)>> \o Slice(Tail(s), k - Head(s).n)
         ELSE <<P(Head(s).t, k)>>

RECURSIVE Join(_)
Join(ss) == IF ss = <<>> THEN <<>> ELSE Cat(Head(ss), Join(Tail(ss)))

(***************************************************************************)
(* bulk_generate: one generation call for the whole word list, the reply   *)
(* split into per-word blocks, padded with placeholders.                   *)
(***************************************************************************)
MissingPrefixLen == 23
ApiErrorPrefixLen == 14
ErrSliceLen == 100

\* re.split(r'\n(?=\[\d+\]\.)', raw): cut at every newline that is
\* immediately followed by a block-start marker; the newline is consumed.
RECURSIVE ReSplit(_, _)
ReSplit(s, cur) ==
    IF s = <<>> THEN <<cur>>
    ELSE IF Head(s).t = "\n" /\ Len(s) >= 2 /\ s[2].t \in Markers
         THEN <<Norm(cur \o <<P("\n", Head(s).n - 1)>>)>> \o ReSplit(Tail(s), <<>>)
         ELSE ReSplit(Tail(s), cur \o <<Head(s)>>)

\* results = [b.strip() for b in blocks if b.strip()]
ParseBlocks(raw) ==
    LET blocks == ReSplit(raw, <<>>)
        stripped == [i \in 1..Len(blocks) |-> Strip(blocks[i])]
    IN  SelectSeq(stripped, LAMBDA b : b # <<>>)

\* the bug of a placeholder that does not name its word
MissingBlockAnon(w) == <<P("MISSING", MissingPrefixLen)>>

\* f"... Missing result for: {w}"
MissingBlock(w) == Cat(<<P("MISSING", MissingPrefixLen)>>, w)

ApiErrorBlock(err) == Cat(<<P("APIERR", ApiErrorPrefixLen)>>, Slice(err, ErrSliceLen))

\* the bug word_list[len(results) - 1]; Python's index -1 is the last element
PadIndexBefore(results, word_list) ==
    IF Len(results) = 0 THEN Len(word_list) ELSE Len(results)

\* word_list[len(results)], 0-based, as a 1-based index
PadIndex(results, word_list) == Len(results) + 1

\* while len(results) < len(word_list): results.append(placeholder)
RECURSIVE Pad(_, _)
Pad(results, word_list) ==
    IF Len(results) < Len(word_list)
    THEN Pad(Append(results, MissingBlock(word_list[PadIndex(results, word_list)])), word_list)
    ELSE results

\* the bug of leaving out "* len(word_list)"
ErrorResultsOnce(word_list, err) == <<ApiErrorBlock(err)>>

\* [f"... API error: {err[:100]}"] * len(word_list)
ErrorResults(word_list, err) == [i \in 1..Len(word_list) |-> ApiErrorBlock(err)]

\* reply: [ok |-> TRUE, text |-> response.text] or
\*        [ok |-> FALSE, text |-> str(e)] when the call raises
bulk_generate(word_list, reply) ==
    IF word_list = <<>> THEN <<>>
    ELSE IF reply.ok
         THEN Pad(ParseBlocks(Strip(reply.text)), word_list)
         ELSE ErrorResults(word_list, reply.text)

(***************************************************************************)
(* Inputs of the bulk_generate check.                                      *)
(***************************************************************************)
MaxWords == 3
MaxReplyBlocks == 4

Word(c) == <<P(c, 2)>>
WordLetters == <<"a", "b", "c", "d", "a", "b", "c", "d">>
WordPool == {Word(WordLetters[i]) : i \in 1..MaxWords}

SeqsNoDup(S, n) ==
    {s \in [1..n -> S] : \A i, j \in 1..n : i # j => s[i] # s[j]}

WordLists == UNION {SeqsNoDup(WordPool, n) : n \in 1..MaxWords}

\* the i-th block of a reply, carrying the number k
ReplyBlock(k, i) == <<P(MarkerNames[k], 4), P(" ", 1), P("x", i)>>

RECURSIVE ReplyBody(_, _, _)
ReplyBody(nums, gap, i) ==
    IF i > Len(nums) THEN <<>>
    ELSE (IF i = 1 THEN <<>> ELSE <<P("\n", gap)>>)
         \o ReplyBlock(nums[i], i) \o ReplyBody(nums, gap, i + 1)

Numberings(k) ==
    { [i \in 1..k |-> i], [i \in 1..k |-> k + 1 - i], [i \in 1..k |-> 1] }

Leads ==
    { <<>>,                                       \* reply starts at the first marker
      <<P("x", 7), P("\n", 1)>>,                  \* commentary before the first marker
      <<P("\n", 2)>> }                            \* blank lines before the first marker

ReplyTexts ==
    { Norm(lead \o ReplyBody(nums, gap, 1) \o tail) :
        lead \in Leads, gap \in 1..2, tail \in {<<>>, <<P(" ", 1), P("\n", 1)>>},
        nums \in UNION {Numberings(k) : k \in 0..MaxReplyBlocks} }
    \cup { <<P("x", 3), P(" ", 1), P(MarkerNames[1], 4), P(" ", 1), P("x", 2)>> }

ErrTexts == { <<>>, <<P("e", 20)>>, <<P("e", 150)>> }

Replies ==
    {[ok |-> TRUE, text |-> t] : t \in ReplyTexts}
    \cup {[ok |-> FALSE, text |-> e] : e \in ErrTexts}

NoReply == [ok |-> TRUE, text |-> <<>>]
NoMsg == [kind |-> "none", header |-> FALSE, text |-> <<>>]
NoEntry == [word |-> <<>>, added_date |-> 0, practice_count |-> 0]
NoStats ==
    [total_words |-> 0, total_practice |-> 0, avg |-> 0, most |-> NoEntry, least |-> NoEntry]

\* a coroutine: its position (pc), its locals, the message its pending await
\* sends, the messages it has delivered and the generation calls it has made
Idle ==
    [pc |-> "idle", kind |-> "none", status |-> "none", chat |-> 0, text |-> <<>>,
     args |-> <<>>, word |-> <<>>, words |-> <<>>, names |-> <<>>, reply |-> NoReply,
     results |-> <<>>, chunks |-> <<>>, i |-> 0, pending |-> NoMsg, sent |-> <<>>,
     calls |-> 0, stats |-> NoStats]

bot_idle ==
    /\ store = <<>> /\ chat_file = 0 /\ saves = 0 /\ nops = 0
    /\ h = Idle /\ d = Idle

sched_idle == /\ s_pc = "off" /\ now = 0 /\ next_run = 0 /\ firings = <<>>

cm_idle == /\ cm_pc = "off" /\ cm_entries = <<>> /\ cm_budget = 0 /\ cm_out = <<>>
bg_idle == /\ bg_pc = "off" /\ bg_words = <<>> /\ bg_reply = [ok |-> TRUE, text |-> <<>>]
           /\ bg_out = <<>>

InitParse ==
    /\ bg_pc = "call"
    /\ bg_words \in WordLists
    /\ bg_reply \in Replies
    /\ bg_out = <<>>
    /\ cm_idle
    /\ bot_idle
    /\ sched_idle

BulkGenerate ==
    /\ bg_pc = "call"
    /\ bg_out' = bulk_generate(bg_words, bg_reply)
    /\ bg_pc' = "done"
    /\ UNCHANGED <<bg_words, bg_reply, cm_vars, bot_vars, sched_vars>>

NextParse == BulkGenerate

SpecParse == InitParse /\ [][NextParse]_vars

(***************************************************************************)
(* chunk_messages: greedy packing of blocks into chunks of at most         *)
(* max_chars characters, each block followed by the separator.             *)
(***************************************************************************)
TELEGRAM_MAX_CHARS == 4000
SepDashes == 25

\* separator = "\n" + 25 box-drawing dashes + "\n\n"
separator == <<P("\n", 1), P("=", SepDashes), P("\n", 2)>>

\* the bug of comparing the block alone against the budget
OverflowsAlone(current, block, max_chars) == StrLen(block) > max_chars

\* len(current) + len(block) > max_chars
Overflows(current, block, max_chars) == StrLen(current) + StrLen(block) > max_chars

\* if current: chunks.append(current.strip())
Flush(chunks, current) ==
    IF current # <<>> THEN Append(chunks, Strip(current)) ELSE chunks

\* the bug of restarting the buffer empty, losing the block that did not fit
StartChunkEmpty(block) == <<>>

\* current = block
StartChunk(block) == block

RECURSIVE ChunkLoop(_, _, _, _)
ChunkLoop(entries, max_chars, chunks, current) ==
    IF entries = <<>> THEN <<chunks, current>>
    ELSE LET block == Cat(Head(entries), separator)
         IN  IF Overflows(current, block, max_chars)
             THEN ChunkLoop(Tail(entries), max_chars,
                            Flush(chunks, current), StartChunk(block))
             ELSE ChunkLoop(Tail(entries), max_chars, chunks, Cat(current, block))

chunk_messages(entries, max_chars) ==
    LET r == ChunkLoop(entries, max_chars, <<>>, <<>>)
    IN  IF Strip(r[2]) # <<>> THEN Append(r[1], Strip(r[2])) ELSE r[1]

(***************************************************************************)
(* Inputs of the chunk_messages check: blocks as bulk_generate returns     *)
(* them (stripped, not empty), and budgets around their sizes.             *)
(***************************************************************************)
MaxEntries == 3

EntryPool ==
    { <<P(MarkerNames[1], 4), P(" ", 1), P("x", 5)>>,
      <<P("y", 5), P("\n", 1), P("y", 5)>>,
      <<P("x", 1970)>>,
      <<P("y", 3980)>>,
      <<P("x", 4001)>>,
      MissingBlock(Word("a")),
      ApiErrorBlock(<<P("e", 150)>>) }

Budgets == {20, 60, TELEGRAM_MAX_CHARS}

InitChunk ==
    /\ cm_pc = "call"
    /\ cm_entries \in UNION {[1..n -> EntryPool] : n \in 1..MaxEntries}
    /\ cm_budget \in Budgets
    /\ cm_out = <<>>
    /\ bg_idle
    /\ bot_idle
    /\ sched_idle

ChunkMessages ==
    /\ cm_pc = "call"
    /\ cm_out' = chunk_messages(cm_entries, cm_budget)
    /\ cm_pc' = "done"
    /\ UNCHANGED <<cm_entries, cm_budget, bg_vars, bot_vars, sched_vars>>

NextChunk == ChunkMessages

SpecChunk == InitChunk /\ [][NextChunk]_vars

(***************************************************************************)
(* The bot: the handlers of main() and send_daily_practice, as coroutines  *)
(* of one event loop.  The application handles one update at a time, so    *)
(* one handler runs at a time; the daily coroutine interleaves with it at  *)
(* the awaits.  One action is the code from one await to the next: the     *)
(* pending send returns or raises, and the code runs up to the next await  *)
(* or up to the request bulk_generate makes to the generation service.     *)
(* That request is a blocking call, not an await: the thread of the loop   *)
(* is inside it until the service answers or the call raises.              *)
(***************************************************************************)
MaxOps == 4

ChatIds == {1, 2}

Msg(kind) == [kind |-> kind, header |-> FALSE, text |-> <<>>]
TextMsg(kind, header, text) == [kind |-> kind, header |-> header, text |-> text]

\* str.lower()
LowerOf(t) == CASE t = "A" -> "a" [] t = "B" -> "b" [] OTHER -> t
Lower(s) == Norm([i \in 1..Len(s) |-> P(LowerOf(s[i].t), s[i].n)])

\* str.replace(c, '')
RemoveChar(s, c) == Norm(SelectSeq(s, LAMBDA p : p.t # c))

\* str.isalpha()
IsAlpha(s) == s # <<>> /\ \A i \in 1..Len(s) : s[i].t \in Lowercase \cup Uppercase

\* str.startswith(c)
StartsWith(s, c) == s # <<>> /\ s[1].t = c

\* the bug of leaving out .lower()
NormalizeCase(text) == Strip(text)

\* update.message.text.strip().lower()
Normalize(text) == Lower(Strip(text))

\* not (len(word) < 2 or not word.replace('-', '').replace(' ', '').isalpha())
IsValidWord(word) ==
    ~(StrLen(word) < 2 \/ ~IsAlpha(RemoveChar(RemoveChar(word, "-"), " ")))

\* the bug of looking at the last entry only
IsDuplicateOfLast(words, word) == words # <<>> /\ words[Len(words)].word = word

\* any(w['word'] == word for w in words)
IsDuplicate(words, word) == \E i \in 1..Len(words) : words[i].word = word

NewEntry(word, date) == [word |-> word, added_date |-> date, practice_count |-> 0]

\* ' '.join(context.args).lower()
RECURSIVE JoinArgs(_)
JoinArgs(args) ==
    IF args = <<>> THEN <<>>
    ELSE IF Len(args) = 1 THEN args[1]
         ELSE Cat(Cat(args[1], <<P(" ", 1)>>), JoinArgs(Tail(args)))

\* the bug of == for !=
WithoutOthers(words, word) == SelectSeq(words, LAMBDA w : w.word = word)

\* the bug of building the kept entries anew
WithoutCounts(words, word) ==
    LET kept == SelectSeq(words, LAMBDA w : w.word # word)
    IN  [i \in 1..Len(kept) |-> [kept[i] EXCEPT !.practice_count = 0]]

\* [w for w in words if w['word'] != word_to_remove]
Without(words, word) == SelectSeq(words, LAMBDA w : w.word # word)

\* the bug of saving without incrementing
BumpNothing(words) == words

\* the bug of incrementing the first entry only
BumpFirst(words) ==
    [i \in 1..Len(words) |->
        IF i = 1 THEN [words[i] EXCEPT !.practice_count = @ + 1] ELSE words[i]]

\* for w in words: w['practice_count'] += 1
Bump(words) == [i \in 1..Len(words) |-> [words[i] EXCEPT !.practice_count = @ + 1]]

\* sum(w['practice_count'] for w in words)
RECURSIVE TotalPractice(_)
TotalPractice(words) ==
    IF words = <<>> THEN 0
    ELSE words[1].practice_count + TotalPractice(Tail(words))

\* f"{avg:.1f}" for avg = total / n: the quotient in tenths, rounded to the
\* nearest tenth and to the even one at a tie (a tie is a multiple of 0.25
\* here, which a float holds exactly)
AvgTenths(total, n) ==
    LET q == (10 * total) \div n
        r == (10 * total) % n
    IN  IF 2 * r > n THEN q + 1
        ELSE IF 2 * r = n THEN q + (q % 2)
        ELSE q

\* the bug of letting a later entry with an equal count win
RECURSIVE MostPracticedLast(_)
MostPracticedLast(words) ==
    IF Len(words) = 1 THEN words[1]
    ELSE LET best == MostPracticedLast(SubSeq(words, 1, Len(words) - 1))
             w == words[Len(words)]
         IN  IF w.practice_count >= best.practice_count THEN w ELSE best

\* max(words, key=lambda x: x['practice_count']): a later entry replaces the
\* best so far only when its count is greater
RECURSIVE MostPracticed(_)
MostPracticed(words) ==
    IF Len(words) = 1 THEN words[1]
    ELSE LET best == MostPracticed(SubSeq(words, 1, Len(words) - 1))
             w == words[Len(words)]
         IN  IF w.practice_count > best.practice_count THEN w ELSE best

\* min(words, key=lambda x: x['practice_count']): a later entry replaces the
\* best so far only when its count is smaller
RECURSIVE LeastPracticed(_)
LeastPracticed(words) ==
    IF Len(words) = 1 THEN words[1]
    ELSE LET best == LeastPracticed(SubSeq(words, 1, Len(words) - 1))
             w == words[Len(words)]
         IN  IF w.practice_count < best.practice_count THEN w ELSE best

\* the figures of the stats message
StatsOf(words) ==
    [total_words |-> Len(words),
     total_practice |-> TotalPractice(words),
     avg |-> AvgTenths(TotalPractice(words), Len(words)),
     most |-> MostPracticed(words),
     least |-> LeastPracticed(words)]

\* the orders random.shuffle can leave a list of n elements in
Shuffles(n) == {f \in [1..n -> 1..n] : \A i, j \in 1..n : i # j => f[i] # f[j]}

\* [w['word'] for w in words], shuffled
ShuffledNames(words, f) == [i \in 1..Len(words) |-> words[f[i]].word]

(***************************************************************************)
(* Inputs of the bot: message texts, /remove arguments and the replies of  *)
(* the generation service to a list of n words.                            *)
(***************************************************************************)
Chars(cs) == Norm([i \in 1..Len(cs) |-> P(cs[i], 1)])

AddTexts ==
    { Chars(<<"a", "b">>),                 \* "ab"
      Chars(<<" ", "A", "b", " ">>),       \* " Ab ": "ab" once normalized
      Chars(<<"c", "d">>),                 \* "cd"
      Chars(<<"c", "-", "d">>),            \* "c-d"
      Chars(<<"a">>),                      \* too short
      Chars(<<"a", "1">>),                 \* not alphabetic
      Chars(<<"-", "-">>),                 \* nothing left without the hyphens
      Chars(<<"/", "-">>) }                \* starts with a slash, no command

RemoveArgs ==
    { <<>>,
      <<Chars(<<"a", "b">>)>>,
      <<Chars(<<"A", "B">>)>>,
      <<Chars(<<"c">>), Chars(<<"d">>)>>,  \* /remove c d
      <<Chars(<<"d", "d">>)>> }

RECURSIVE BigReplyBody(_, _)
BigReplyBody(n, i) ==
    IF i > n THEN <<>>
    ELSE (IF i = 1 THEN <<>> ELSE <<P("\n", 1)>>)
         \o <<P(MarkerNames[i], 4), P(" ", 1), P("y", 2500)>> \o BigReplyBody(n, i + 1)

BotReplies(n) ==
    {[ok |-> TRUE, text |-> Norm(ReplyBody([i \in 1..k |-> i], 1, 1))] : k \in (n - 1)..(n + 1)}
    \cup {[ok |-> TRUE, text |-> Norm(BigReplyBody(n, 1))]}
    \cup {[ok |-> FALSE, text |-> <<P("e", 150)>>]}

(***************************************************************************)
(* Awaits.                                                                 *)
(***************************************************************************)
\* the pending send returned: its message is delivered
Resumed(r) == [r EXCEPT !.sent = Append(@, r.pending), !.pending = NoMsg]

\* the pending send raised and nothing catches it: the coroutine ends
Aborted(r) == Idle

\* the pending send raised inside the try of send_daily_practice: the except
\* clause logs it and the coroutine ends
Caught(r) == Idle

\* the coroutine returns
Finished(r) == Idle

Began(kind, c) == [Idle EXCEPT !.kind = kind, !.status = "running", !.chat = c]

\* the bug of awaiting the service: the loop runs its other coroutines
\* during a call
BlockingNever(r) == FALSE

\* r is inside model.generate_content
Blocking(r) == r.pc \in {"add_calling", "calling"}

\* the pending send returned and r makes its request to the service
Called(r, pc) == [Resumed(r) EXCEPT !.calls = @ + 1, !.pc = pc]

\* results, counters and chunks of a batch run, from the answer of the
\* service up to the first chunk send
AfterGenerate(r, reply) ==
    LET results == bulk_generate(r.names, reply)
        chunks == chunk_messages(results, TELEGRAM_MAX_CHARS)
    IN  [r EXCEPT
            !.reply = reply, !.results = results,
            !.words = Bump(r.words), !.chunks = chunks,
            !.i = IF chunks = <<>> THEN 0 ELSE 1,
            !.pending = IF chunks = <<>> THEN Msg("done")
                        ELSE TextMsg("chunk", TRUE, chunks[1]),
            !.pc = IF chunks = <<>> THEN "final" ELSE "send"]

\* for i, chunk in enumerate(chunks): the next send, or the closing message
AfterChunk(r) ==
    IF r.i < Len(r.chunks)
    THEN [Resumed(r) EXCEPT !.i = @ + 1,
                            !.pending = TextMsg("chunk", FALSE, r.chunks[r.i + 1])]
    ELSE [Resumed(r) EXCEPT !.pending = Msg("done"), !.pc = "final"]

(***************************************************************************)
(* Command handlers.                                                       *)
(***************************************************************************)
\* the thread of the event loop is free to run a coroutine
LoopFree == ~Blocking(h) /\ ~Blocking(d)

Accept == LoopFree /\ h.pc = "idle" /\ nops < MaxOps /\ nops' = nops + 1

\* the bug of keeping the identifier the file already holds
save_chat_id_keep(file, chat_id) == IF file = 0 THEN chat_id ELSE file

\* open(CHAT_ID_FILE, 'w') and write: the file holds chat_id and nothing else
save_chat_id(file, chat_id) == chat_id

Start ==
    \E c \in ChatIds :
        /\ Accept
        /\ chat_file' = save_chat_id(chat_file, c)
        /\ h' = [Began("start", c) EXCEPT !.words = store, !.pending = Msg("start"),
                                          !.pc = "final"]
        /\ UNCHANGED <<store, saves, d, bg_vars, cm_vars, sched_vars>>

AddWord ==
    \E c \in ChatIds, text \in AddTexts :
        LET word == Normalize(text)
            h0 == [Began("add", c) EXCEPT !.text = text, !.word = word]
        IN  /\ Accept
            /\ IF StartsWith(word, "/")
               THEN /\ h' = [h0 EXCEPT !.pc = "return"]
                    /\ UNCHANGED file_vars
               ELSE IF ~IsValidWord(word)
               THEN /\ h' = [h0 EXCEPT !.pending = Msg("invalid"), !.pc = "final"]
                    /\ UNCHANGED file_vars
               ELSE IF IsDuplicate(store, word)
               THEN /\ h' = [h0 EXCEPT !.words = store, !.pending = Msg("duplicate"),
                                       !.pc = "final"]
                    /\ UNCHANGED file_vars
               ELSE /\ store' = Append(store, NewEntry(word, nops'))
                    /\ saves' = saves + 1
                    /\ h' = [h0 EXCEPT !.words = store', !.pending = Msg("added"),
                                       !.pc = "add_generate"]
                    /\ UNCHANGED chat_file
            /\ UNCHANGED <<d, bg_vars, cm_vars, sched_vars>>

AddGenerate ==
    /\ LoopFree /\ h.pc = "add_generate"
    /\ \/ h' = Aborted(h)
       \/ h' = Called(h, "add_calling")
    /\ UNCHANGED <<file_vars, nops, d, bg_vars, cm_vars, sched_vars>>

\* the service answers the request of add_word, or the request raises
AddReply ==
    /\ h.pc = "add_calling"
    /\ \E reply \in BotReplies(1) :
           LET results == bulk_generate(<<h.word>>, reply)
           IN  h' = [h EXCEPT
                        !.reply = reply, !.results = results,
                        !.pending = IF results # <<>>
                                    THEN TextMsg("result", FALSE, results[1])
                                    ELSE Msg("no_example"),
                        !.pc = "final"]
    /\ UNCHANGED <<file_vars, nops, d, bg_vars, cm_vars, sched_vars>>

PracticeAll ==
    \E c \in ChatIds :
        /\ Accept
        /\ IF store = <<>>
           THEN h' = [Began("practice", c) EXCEPT !.pending = Msg("empty"), !.pc = "final"]
           ELSE \E f \in Shuffles(Len(store)) :
                    h' = [Began("practice", c) EXCEPT
                             !.words = store, !.names = ShuffledNames(store, f),
                             !.pending = Msg("generating"), !.pc = "generate"]
        /\ UNCHANGED <<file_vars, d, bg_vars, cm_vars, sched_vars>>

PracticeGenerate ==
    /\ LoopFree /\ h.pc = "generate"
    /\ \/ h' = Aborted(h)
       \/ h' = Called(h, "calling")
    /\ UNCHANGED <<file_vars, nops, d, bg_vars, cm_vars, sched_vars>>

\* the service answers the request of practice_all, or the request raises
PracticeReply ==
    /\ h.pc = "calling"
    /\ \E reply \in BotReplies(Len(h.names)) :
           /\ h' = AfterGenerate(h, reply)
           /\ store' = h'.words
           /\ saves' = saves + 1
           /\ UNCHANGED chat_file
    /\ UNCHANGED <<nops, d, bg_vars, cm_vars, sched_vars>>

PracticeSend ==
    /\ LoopFree /\ h.pc = "send"
    /\ \/ h' = Aborted(h)
       \/ h' = AfterChunk(h)
    /\ UNCHANGED <<file_vars, nops, d, bg_vars, cm_vars, sched_vars>>

RemoveWord ==
    \E c \in ChatIds, args \in RemoveArgs :
        LET h0 == [Began("remove", c) EXCEPT !.args = args]
            word_to_remove == Lower(JoinArgs(args))
            new_words == Without(store, word_to_remove)
        IN  /\ Accept
            /\ IF args = <<>>
               THEN /\ h' = [h0 EXCEPT !.pending = Msg("usage"), !.pc = "final"]
                    /\ UNCHANGED file_vars
               ELSE IF Len(new_words) < Len(store)
               THEN /\ store' = new_words
                    /\ saves' = saves + 1
                    /\ h' = [h0 EXCEPT !.word = word_to_remove, !.words = store,
                                       !.pending = Msg("removed"), !.pc = "final"]
                    /\ UNCHANGED chat_file
               ELSE /\ h' = [h0 EXCEPT !.word = word_to_remove, !.words = store,
                                       !.pending = Msg("not_found"), !.pc = "final"]
                    /\ UNCHANGED file_vars
            /\ UNCHANGED <<d, bg_vars, cm_vars, sched_vars>>

\* the reply lists h.words in stored order, each with its practice_count,
\* and their number
ListWords ==
    \E c \in ChatIds :
        /\ Accept
        /\ h' = [Began("list", c) EXCEPT
                    !.words = store,
                    !.pending = IF store = <<>> THEN Msg("empty") ELSE Msg("list"),
                    !.pc = "final"]
        /\ UNCHANGED <<file_vars, d, bg_vars, cm_vars, sched_vars>>

\* the reply shows the figures of h.stats
Stats ==
    \E c \in ChatIds :
        /\ Accept
        /\ IF store = <<>>
           THEN h' = [Began("stats", c) EXCEPT !.pending = Msg("empty"), !.pc = "final"]
           ELSE h' = [Began("stats", c) EXCEPT
                         !.words = store, !.stats = StatsOf(store),
                         !.pending = Msg("stats"), !.pc = "final"]
        /\ UNCHANGED <<file_vars, d, bg_vars, cm_vars, sched_vars>>

\* the last await of a handler returns or raises, or the handler returns
\* without a reply
HandlerReturn ==
    /\ LoopFree
    /\ \/ h.pc = "final" /\ h' = Aborted(h)
       \/ h.pc = "final" /\ h' = Finished(Resumed(h))
       \/ h.pc = "return" /\ h' = Finished(h)
    /\ UNCHANGED <<file_vars, nops, d, bg_vars, cm_vars, sched_vars>>

(***************************************************************************)
(* send_daily_practice.                                                    *)
(***************************************************************************)
\* the bug of going on without a subscriber
NoSubscriberNever(chat_id) == FALSE

\* not chat_id, for the chat_id load_chat_id returns (None, here 0, while
\* the file is absent)
NoSubscriber(chat_id) == chat_id = 0

\* the coroutine runs from its start to its first await, or to its return
\* when it has nothing to do
DailyStart ==
    /\ LoopFree /\ d.pc = "idle" /\ nops < MaxOps /\ nops' = nops + 1
    /\ IF NoSubscriber(chat_file)
       THEN d' = [Began("daily", chat_file) EXCEPT !.pc = "return"]
       ELSE IF store = <<>>
       THEN d' = Finished([Began("daily", chat_file) EXCEPT !.words = store])
       ELSE \E f \in Shuffles(Len(store)) :
                d' = [Began("daily", chat_file) EXCEPT
                         !.words = store, !.names = ShuffledNames(store, f),
                         !.pending = Msg("morning"), !.pc = "generate"]
    /\ UNCHANGED <<file_vars, h, bg_vars, cm_vars, sched_vars>>

DailyGenerate ==
    /\ LoopFree /\ d.pc = "generate"
    /\ \/ d' = Caught(d)
       \/ d' = Called(d, "calling")
    /\ UNCHANGED <<file_vars, nops, h, bg_vars, cm_vars, sched_vars>>

\* the service answers the request of send_daily_practice, or the request
\* raises
DailyReply ==
    /\ d.pc = "calling"
    /\ \E reply \in BotReplies(Len(d.names)) :
           /\ d' = AfterGenerate(d, reply)
           /\ store' = d'.words
           /\ saves' = saves + 1
           /\ UNCHANGED chat_file
    /\ UNCHANGED <<nops, h, bg_vars, cm_vars, sched_vars>>

DailySend ==
    /\ LoopFree /\ d.pc = "send"
    /\ \/ d' = Caught(d)
       \/ d' = AfterChunk(d)
    /\ UNCHANGED <<file_vars, nops, h, bg_vars, cm_vars, sched_vars>>

\* the last await of the coroutine returns or raises, or the coroutine
\* returns without having sent anything
DailyReturn ==
    /\ LoopFree
    /\ \/ d.pc = "final" /\ d' = Caught(d)
       \/ d.pc = "final" /\ d' = Finished(Resumed(d))
       \/ d.pc = "return" /\ d' = Finished(d)
    /\ UNCHANGED <<file_vars, nops, h, bg_vars, cm_vars, sched_vars>>

Init == bot_idle /\ bg_idle /\ cm_idle /\ sched_idle

Next ==
    \/ Start \/ AddWord \/ AddGenerate \/ AddReply
    \/ PracticeAll \/ PracticeGenerate \/ PracticeReply \/ PracticeSend
    \/ ListWords \/ RemoveWord \/ Stats \/ HandlerReturn
    \/ DailyStart \/ DailyGenerate \/ DailyReply \/ DailySend \/ DailyReturn

Spec == Init /\ [][Next]_vars

(***************************************************************************)
(* The stats handler over the word lists english_words.json can hold: up   *)
(* to three entries of distinct words with any practice counts up to       *)
(* MaxCount.                                                               *)
(***************************************************************************)
MaxCount == 3

StatWords == {Chars(<<"a", "b">>), Chars(<<"c", "d">>), Chars(<<"c", "-", "d">>)}

StatStores ==
    UNION {{[i \in 1..n |-> [word |-> ws[i], added_date |-> i, practice_count |-> cs[i]]] :
               ws \in SeqsNoDup(StatWords, n), cs \in [1..n -> 0..MaxCount]} :
           n \in 0..Cardinality(StatWords)}

InitStats ==
    /\ store \in StatStores
    /\ chat_file = 0 /\ saves = 0 /\ nops = 0 /\ h = Idle /\ d = Idle
    /\ bg_idle /\ cm_idle /\ sched_idle

NextStats == Stats

SpecStats == InitStats /\ [][NextStats]_vars

(***************************************************************************)
(* schedule_daily_practice: the scheduler thread main() starts.  It        *)
(* registers the daily job for 09:00 and polls schedule.run_pending()      *)
(* every 60 seconds.  Time is counted in polls; a day is SlotsPerDay polls *)
(* long and 09:00 is the start of poll FireSlot of each day.               *)
(***************************************************************************)
SlotsPerDay == 8
FireSlot == 3
MaxDays == 7

DayOf(t) == t \div SlotsPerDay
SlotOf(t) == t % SlotsPerDay
LastTick == MaxDays * SlotsPerDay - 1

\* every().day.at("09:00"): the first 09:00 after t
NextNine(t) ==
    IF SlotOf(t) < FireSlot
    THEN DayOf(t) * SlotsPerDay + FireSlot
    ELSE (DayOf(t) + 1) * SlotsPerDay + FireSlot

\* the thread is started at some time of day 0 and registers the job
InitSched ==
    /\ now \in 0..(SlotsPerDay - 1)
    /\ next_run = NextNine(now)
    /\ s_pc = "run_pending"
    /\ firings = <<>>
    /\ bot_idle /\ bg_idle /\ cm_idle

\* schedule.run_pending(): the job runs when it is due
RunPending ==
    /\ s_pc = "run_pending"
    /\ IF now >= next_run
       THEN s_pc' = "firing" /\ firings' = Append(firings, now)
       ELSE s_pc' = "sleep" /\ UNCHANGED firings
    /\ UNCHANGED <<now, next_run, bot_vars, bg_vars, cm_vars>>

\* lambda: asyncio.create_task(job()) in the scheduler thread, which runs no
\* event loop: create_task raises RuntimeError; neither the lambda, nor
\* run_pending, nor the while loop catches it, and the thread ends
LaunchRaises == s_pc' = "dead" /\ UNCHANGED next_run

JobLaunch ==
    /\ s_pc = "firing"
    /\ LaunchRaises
    /\ UNCHANGED <<now, firings, bot_vars, bg_vars, cm_vars>>

\* time.sleep(60)
Sleep ==
    /\ s_pc = "sleep" /\ now < LastTick
    /\ now' = now + 1
    /\ s_pc' = "run_pending"
    /\ UNCHANGED <<next_run, firings, bot_vars, bg_vars, cm_vars>>

\* time goes on for the rest of the process after the thread has ended
TimePasses ==
    /\ s_pc = "dead" /\ now < LastTick
    /\ now' = now + 1
    /\ UNCHANGED <<s_pc, next_run, firings, bot_vars, bg_vars, cm_vars>>

NextSched == RunPending \/ JobLaunch \/ Sleep \/ TimePasses

SpecSched == InitSched /\ [][NextSched]_vars

(***************************************************************************)
(* Properties of bulk_generate (SpecParse).                                *)
(***************************************************************************)
\* number of newlines of s that are immediately followed by a marker
RECURSIVE Cuts(_)
Cuts(s) ==
    IF Len(s) < 2 THEN 0
    ELSE (IF s[1].t = "\n" /\ s[2].t \in Markers THEN 1 ELSE 0) + Cuts(Tail(s))

\* number of non-empty blocks a reply text splits into
NumBlocks(text) == IF Strip(text) = <<>> THEN 0 ELSE Cuts(Strip(text)) + 1

\* s without its whitespace
Squeeze(s) == Norm(SelectSeq(s, LAMBDA p : p.t \notin Space))

IsStripped(s) == s # <<>> /\ s[1].t \notin Space /\ s[Len(s)].t \notin Space

\* C1: for every non-empty word list of length N and every raw reply, the
\* list bulk_generate returns has exactly N elements.
C1_LengthIsN ==
    bg_pc = "done" => Len(bg_out) = Len(bg_words)

\* a reply with fewer blocks than words is padded to exactly N elements
C1_PaddedWhenShort ==
    (bg_pc = "done" /\ bg_reply.ok /\ NumBlocks(bg_reply.text) <= Len(bg_words))
        => Len(bg_out) = Len(bg_words)

\* C2: when the reply splits into k < N non-empty blocks, the result is those
\* k blocks, whole and in the order of the reply whatever their numbers, and
\* then a placeholder naming the i-th word at every position i in k+1..N.
C2_BlocksThenPlaceholders ==
    LET k == NumBlocks(bg_reply.text)
        N == Len(bg_words)
    IN  (bg_pc = "done" /\ bg_reply.ok /\ k < N) =>
            /\ Len(bg_out) = N
            /\ \A i \in 1..k : IsStripped(bg_out[i]) /\ Cuts(bg_out[i]) = 0
            /\ \A i \in 2..k : bg_out[i][1].t \in Markers
            /\ Squeeze(Join(SubSeq(bg_out, 1, k))) = Squeeze(bg_reply.text)
            /\ \A i \in (k + 1)..N : bg_out[i] = MissingBlock(bg_words[i])

\* a reply of two blocks numbered in descending order, for three words
C2_Witness ==
    /\ bg_pc = "done" /\ bg_reply.ok
    /\ NumBlocks(bg_reply.text) = 2 /\ Len(bg_words) = 3
    /\ bg_out[1][1].t = MarkerNames[2] /\ bg_out[2][1].t = MarkerNames[1]
    /\ bg_out[3] = MissingBlock(bg_words[3])

(***************************************************************************)
(* Properties of chunk_messages (SpecChunk).                               *)
(***************************************************************************)
SepLen == StrLen(separator)

\* the chunk that holds the block e alone
AloneChunk(e) == Strip(Cat(e, separator))

\* C3 as stated: every chunk is at most the budget long, except a chunk of
\* exactly one block that is by itself larger than the budget.
C3_WithinBudgetUnlessBlockOversized ==
    cm_pc = "done" =>
        \A j \in 1..Len(cm_out) :
            \/ StrLen(cm_out[j]) <= cm_budget
            \/ \E i \in 1..Len(cm_entries) :
                   /\ cm_out[j] = AloneChunk(cm_entries[i])
                   /\ StrLen(cm_entries[i]) > cm_budget

\* C3 amended: every chunk is at most the budget long, except a chunk of
\* exactly one block that together with its separator is larger than the
\* budget.
C3_WithinBudgetUnlessBlockAndSeparatorOversized ==
    cm_pc = "done" =>
        \A j \in 1..Len(cm_out) :
            \/ StrLen(cm_out[j]) <= cm_budget
            \/ \E i \in 1..Len(cm_entries) :
                   /\ cm_out[j] = AloneChunk(cm_entries[i])
                   /\ StrLen(cm_entries[i]) + SepLen > cm_budget

\* a chunk of several blocks next to a chunk over the budget
C3_Witness ==
    /\ cm_pc = "done" /\ cm_budget = TELEGRAM_MAX_CHARS
    /\ \E j \in 1..Len(cm_out) : StrLen(cm_out[j]) > cm_budget
    /\ \E j \in 1..Len(cm_out) : Cuts(cm_out[j]) = 0 /\ StrLen(cm_out[j]) > 2 * SepLen
                                 /\ StrLen(cm_out[j]) <= cm_budget
                                 /\ \A i \in 1..Len(cm_entries) : cm_out[j] # AloneChunk(cm_entries[i])

\* the groups lo..hi that the cut points B make of 1..n
GroupsOf(n, B) ==
    LET ends == {b \in B : b < n} \cup {n}
        starts == {1} \cup {b + 1 : b \in B \ {n}}
    IN  {<<lo, hi>> \in starts \X ends :
            lo <= hi /\ \A e \in ends : ~(lo <= e /\ e < hi)}

\* the blocks lo..hi, each followed by the separator
RECURSIVE GroupText(_, _, _)
GroupText(entries, lo, hi) ==
    IF lo > hi THEN <<>>
    ELSE Cat(Cat(entries[lo], separator), GroupText(entries, lo + 1, hi))

\* C4: the chunks are a division of the block sequence into consecutive
\* groups: chunk j is the blocks of group j, whole and in input order, each
\* followed by the separator (less the blank line that ends the chunk), and a
\* block larger than the budget is alone in its group.
C4_ChunksPartitionBlocks ==
    cm_pc = "done" =>
        \E B \in SUBSET (1..(Len(cm_entries) - 1)) :
            LET G == GroupsOf(Len(cm_entries), B)
            IN  /\ Len(cm_out) = Cardinality(G)
                /\ \A g \in G :
                       LET j == Cardinality({g2 \in G : g2[1] <= g[1]})
                       IN  /\ Cat(cm_out[j], <<P("\n", 2)>>) = GroupText(cm_entries, g[1], g[2])
                           /\ \A i \in g[1]..g[2] :
                                  StrLen(cm_entries[i]) > cm_budget => g[1] = g[2]

\* three blocks in two chunks, the block over the budget alone in the second
C4_Witness ==
    /\ cm_pc = "done" /\ Len(cm_entries) = 3 /\ Len(cm_out) = 2
    /\ StrLen(cm_entries[3]) > cm_budget
    /\ cm_entries[1] # cm_entries[2]
    /\ cm_out[2] = AloneChunk(cm_entries[3])

(***************************************************************************)
(* Properties of the bot (Spec).                                           *)
(***************************************************************************)
\* a word lower-cased and trimmed
Folded(w) == Lower(Strip(w))

EntriesFor(w) == {i \in 1..Len(store) : Folded(store[i].word) = Folded(w)}

\* C5: no two entries of the persisted word list share the same normalized
\* (lower-cased, trimmed) word, whatever adds, removes, practice-all runs and
\* daily runs have happened from the empty store.
C5_UniqueWords ==
    \A i, j \in 1..Len(store) :
        i # j => Folded(store[i].word) # Folded(store[j].word)

\* the word sent a second time, spelt differently, is in the store once
C5_Witness ==
    /\ h.kind = "add" /\ h.pending.kind = "duplicate"
    /\ \E i \in 1..Len(store) : store[i].word # h.text /\ store[i].practice_count > 0
    /\ Cardinality(EntriesFor(h.text)) = 1

\* malformed: shorter than 2 characters or not alphabetic once the hyphens
\* and spaces are removed
Malformed(w) == StrLen(w) < 2 \/ ~IsAlpha(RemoveChar(RemoveChar(w, "-"), " "))

Present(w) == \E i \in 1..Len(store) : store[i].word = w

\* this step begins the handling of a command that is rejected
RejectedAdd ==
    /\ h.pc = "idle" /\ h'.kind = "add"
    /\ Malformed(Folded(h'.text)) \/ Present(Folded(h'.text))
RejectedRemove ==
    /\ h.pc = "idle" /\ h'.kind = "remove"
    /\ h'.args = <<>> \/ ~Present(Lower(JoinArgs(h'.args)))

RejectionKinds == {"invalid", "duplicate", "usage", "not_found"}

PracticeGenerated ==
    h.kind = "practice" /\ h.pc = "calling" /\ h'.pc \in {"send", "final"}

Incremented(before, after) ==
    /\ Len(after) = Len(before)
    /\ \A i \in 1..Len(before) :
           /\ after[i].word = before[i].word
           /\ after[i].added_date = before[i].added_date
           /\ after[i].practice_count = before[i].practice_count + 1

\* C7: a practice-all run on a non-empty store that nothing has written to
\* since the run loaded it makes one generation call and leaves the store with
\* the same words in the same order, every practice_count one higher.
C7_PracticeIncrementsAll ==
    /\ [][(PracticeGenerated /\ store = h.words) =>
              h'.calls = 1 /\ Incremented(store, store')]_vars
    /\ [](h.kind = "practice" => h.calls = IF h.pc \in {"idle", "generate"} \/ h.words = <<>>
                                          THEN 0 ELSE 1)

\* two words presented in the other order, a reply of another block count
C7_Witness ==
    /\ h.kind = "practice" /\ h.pc = "send" /\ Len(h.words) = 2
    /\ h.names[1] = h.words[2].word
    /\ h.reply.ok /\ NumBlocks(h.reply.text) # Len(h.words)
    /\ store = h.words /\ store[1].practice_count = 1

RECURSIVE CountPieces(_, _)
CountPieces(s, t) ==
    IF s = <<>> THEN 0 ELSE (IF Head(s).t = t THEN 1 ELSE 0) + CountPieces(Tail(s), t)

RECURSIVE PlaceholdersIn(_)
PlaceholdersIn(msgs) ==
    IF msgs = <<>> THEN 0
    ELSE CountPieces(Head(msgs).text, "APIERR") + PlaceholdersIn(Tail(msgs))

\* C8: when the generation call raises, the practice-all run gets N identical
\* placeholder blocks, increments every loaded entry, saves the store and
\* goes on to deliver; when its chunks are sent, N placeholders are delivered.
C8_FailedGenerationStillCompletes ==
    /\ [][(PracticeGenerated /\ ~h'.reply.ok) =>
              /\ Len(h'.results) = Len(h.words)
              /\ \A i \in 1..Len(h'.results) :
                     /\ h'.results[i] = h'.results[1]
                     /\ h'.results[i][1].t = "APIERR"
                     /\ StrLen(h'.results[i]) <= ApiErrorPrefixLen + ErrSliceLen
              /\ Incremented(h.words, store') /\ saves' = saves + 1
              /\ h'.pc = "send"]_vars
    /\ []((h.kind = "practice" /\ h.pending.kind = "done" /\ ~h.reply.ok) =>
              PlaceholdersIn(h.sent) = Len(h.words))

\* two words, the call raised, both placeholders delivered
C8_Witness ==
    /\ h.kind = "practice" /\ h.pending.kind = "done" /\ ~h.reply.ok
    /\ Len(h.words) = 2 /\ PlaceholdersIn(h.sent) = 2

(***************************************************************************)
(* Properties of the scheduler thread (SpecSched).                         *)
(***************************************************************************)
\* C9: a failure of the daily job does not halt the timer loop: the loop
\* keeps polling, and a day after a firing the job has fired again.
C9_FailureDoesNotHaltLoop ==
    /\ s_pc \in {"run_pending", "sleep", "firing"}
    /\ \A i \in 1..Len(firings) :
           now > firings[i] + SlotsPerDay => \E j \in 1..Len(firings) : firings[j] > firings[i]

\* C10: the trigger fires at most once per calendar day and every firing
\* returns to idle, where the loop waits for the next scheduled day.
C10_FiringReturnsToIdle ==
    [][/\ s_pc = "firing" => s_pc' = "sleep"
       /\ \A i, j \in 1..Len(firings') : i # j => DayOf(firings'[i]) # DayOf(firings'[j])]_vars

(***************************************************************************)
(* The daily run without a subscriber.                                     *)
(***************************************************************************)
\* the step in which send_daily_practice is started
DailyFired == d.pc = "idle" /\ d'.pc # "idle"

\* C11: a daily run that finds no subscriber identifier stored sends no
\* message and makes no generation call, and neither its start nor its
\* return writes the word list: every entry and every practice_count stays
\* as it was
C11_NoSubscriberNoOp ==
    [][ /\ (DailyFired /\ chat_file = 0) =>
               /\ d'.pc = "return" /\ d'.pending = NoMsg
               /\ d'.sent = <<>> /\ d'.calls = 0
               /\ store' = store /\ saves' = saves
        /\ (d.pc = "return" /\ d.chat = 0 /\ d' # d) =>
               /\ d'.pc = "idle"
               /\ store' = store /\ saves' = saves ]_vars

\* a daily run has fired over a non-empty word list and no subscriber
C11_Witness == d.pc = "return" /\ d.chat = 0 /\ chat_file = 0 /\ store # <<>>

(***************************************************************************)
(* The subscriber identifier.                                              *)
(***************************************************************************)
Commands == {"start", "add", "list", "practice", "remove", "stats"}

\* the step in which the application starts the handler of an update
Handled == h.pc = "idle" /\ h'.pc # "idle"

\* C12, as stated: while and after a command from a chat is handled, the
\* stored subscriber identifier is that chat's identifier, whichever of
\* start, add, list, practice, remove and stats the command is
C12_EveryCommandSetsSubscriber ==
    (h.pc # "idle" /\ h.kind \in Commands) => chat_file = h.chat

\* C12, amended: the start command stores the identifier of its chat in
\* place of the one stored before; add, list, practice, remove and stats
\* leave the stored identifier as it is; nothing else writes it, and the
\* file holds one identifier or none
C12_StartSetsSubscriber ==
    [][ /\ (Handled /\ h'.kind = "start") => chat_file' = h'.chat
        /\ (Handled /\ h'.kind \in Commands \ {"start"}) => chat_file' = chat_file
        /\ chat_file' # chat_file => (Handled /\ h'.kind = "start")
        /\ chat_file' \in ChatIds \cup {0} ]_vars

\* a command other than start is being handled for a chat other than the
\* subscriber stored by an earlier start
C12_Witness ==
    /\ h.pc # "idle" /\ h.kind \in Commands \ {"start"}
    /\ chat_file \in ChatIds /\ chat_file # h.chat

(***************************************************************************)
(* Generation calls.                                                       *)
(***************************************************************************)
\* r has made a request to the generation service and has no answer yet
InFlight(r) == r.pc \in {"add_calling", "calling"}

BatchRun(r) == r.kind \in {"practice", "daily"}

\* names holds the word of every entry of words, each once
Covers(names, words) ==
    /\ Len(names) = Len(words)
    /\ \A i \in 1..Len(words) : \E j \in 1..Len(names) : names[j] = words[i].word

\* C13: the handler and the daily run never both have a generation call in
\* flight; a practice-all or daily run has made no call before its first
\* send returned and exactly one from then on, and that call is for the
\* words of all the entries the run loaded
C13_OneCallAtATime ==
    /\ ~(InFlight(h) /\ InFlight(d))
    /\ \A r \in {h, d} :
           BatchRun(r) =>
               /\ r.calls = IF r.pc \in {"generate", "return"} \/ r.words = <<>>
                            THEN 0 ELSE 1
               /\ InFlight(r) => (r.names # <<>> /\ Covers(r.names, r.words))

\* the call of a practice-all run is in flight while the daily run, its
\* first send pending, is ready to make its own
C13_Witness ==
    /\ InFlight(h) /\ h.kind = "practice" /\ h.names # <<>>
    /\ d.pc = "generate" /\ d.names # <<>>

(***************************************************************************)
(* From an empty store: add a word, then practise.                         *)
(***************************************************************************)
\* sub occurs in text at piece k: whole pieces inside, the end of a run at
\* its start and the start of a run at its end
ContainsAt(text, sub, k) ==
    /\ k + Len(sub) - 1 <= Len(text)
    /\ \A j \in 1..Len(sub) :
           /\ text[k + j - 1].t = sub[j].t
           /\ IF j \in {1, Len(sub)} /\ sub[j].t \notin Literals
              THEN text[k + j - 1].n >= sub[j].n
              ELSE text[k + j - 1].n = sub[j].n

Contains(text, sub) == sub # <<>> /\ \E k \in 1..Len(text) : ContainsAt(text, sub, k)

\* a block that refers to the word w: a block of the answer of the service,
\* which is taken to be about the word it was asked for, or a block in which
\* w occurs
RefersTo(block, w, reply) ==
    \/ reply.ok /\ \E i \in 1..Len(ParseBlocks(Strip(reply.text))) :
                       ParseBlocks(Strip(reply.text))[i] = block
    \/ Contains(block, w)

\* the first add to an empty store, of the valid word Folded(h'.text)
FirstAdd == Handled /\ h'.kind = "add" /\ store = <<>> /\ ~Malformed(Folded(h'.text))

\* the generation call of a practice-all run returns, the store being the
\* one entry, never practised, that the run loaded
FirstPractice ==
    /\ PracticeGenerated /\ store = h.words
    /\ Len(store) = 1 /\ store[1].practice_count = 0

AddedOnce ==
    /\ Len(store') = 1 /\ store'[1].word = Folded(h'.text)
    /\ store'[1].practice_count = 0

PractisedOnce ==
    /\ store' = <<[store[1] EXCEPT !.practice_count = 1]>>
    /\ h'.chunks # <<>> /\ h'.pending.kind = "chunk"
    /\ h'.results # <<>>
    /\ \A i \in 1..Len(h'.results) : Contains(Join(h'.chunks), h'.results[i])

\* C14, as stated: the add leaves one entry with practice_count 0; the
\* practice-all run makes it 1 and produces at least one reply, and the
\* replies together contain a block that refers to the word
C14_AddThenPractice ==
    [][ /\ FirstAdd => AddedOnce
        /\ FirstPractice =>
               /\ PractisedOnce
               /\ \E i \in 1..Len(h'.results) :
                      RefersTo(h'.results[i], store[1].word, h'.reply) ]_vars

\* C14, amended: the add leaves one entry with practice_count 0; the
\* practice-all run makes it 1 and produces at least one reply, and the
\* replies together contain every block of the run, the first of which is
\* the first block of the answer; or, when the answer holds no block, a
\* placeholder that names the word; or, when the call raised, an API-error
\* placeholder, which does not name the word
C14_AddThenPracticeOrError ==
    [][ /\ FirstAdd => AddedOnce
        /\ FirstPractice =>
               /\ PractisedOnce
               /\ IF ~h'.reply.ok
                  THEN /\ h'.results[1][1].t = "APIERR"
                       /\ ~Contains(h'.results[1], store[1].word)
                  ELSE IF NumBlocks(h'.reply.text) = 0
                  THEN /\ h'.results[1][1].t = "MISSING"
                       /\ Contains(h'.results[1], store[1].word)
                  ELSE h'.results[1] = ParseBlocks(Strip(h'.reply.text))[1] ]_vars

\* the one word was added to the empty store and practised, the call raised
\* and the one block to deliver is the API-error placeholder
C14_Witness ==
    /\ h.kind = "practice" /\ h.pc = "send" /\ ~h.reply.ok
    /\ Len(h.words) = 1 /\ store = h.words /\ store[1].practice_count = 1
    /\ saves = 2 /\ Len(h.results) = 1

(***************************************************************************)
(* The figures of stats (SpecStats).                                       *)
(***************************************************************************)
\* the practice counts of the first n entries, added up
RECURSIVE CountSum(_, _)
CountSum(words, n) ==
    IF n = 0 THEN 0 ELSE CountSum(words, n - 1) + words[n].practice_count

CountsOf(words) == [i \in 1..Len(words) |-> words[i].practice_count]

\* C15: over a non-empty store, loaded as h.words, stats reports the number
\* of entries, the sum of their practice counts, as most practiced the first entry in stored
\* order that has the greatest count and as least practiced the first that
\* has the smallest; for the counts 0, 3, 1 the total is 4, the most
\* practiced entry the second and the least practiced the first
C15_StatsFigures ==
    (h.kind = "stats" /\ h.pc = "final" /\ h.words # <<>>) =>
        LET n == Len(h.words)
            c == CountsOf(h.words)
        IN  /\ h.pending.kind = "stats"
            /\ h.stats.total_words = n
            /\ h.stats.total_practice = CountSum(h.words, n)
            /\ \E i \in 1..n :
                   /\ h.stats.most = h.words[i]
                   /\ \A j \in 1..n : c[j] <= c[i]
                   /\ \A j \in 1..(i - 1) : c[j] < c[i]
            /\ \E i \in 1..n :
                   /\ h.stats.least = h.words[i]
                   /\ \A j \in 1..n : c[j] >= c[i]
                   /\ \A j \in 1..(i - 1) : c[j] > c[i]
            /\ c = <<0, 3, 1>> =>
                   /\ h.stats.total_practice = 4
                   /\ h.stats.most = h.words[2]
                   /\ h.stats.least = h.words[1]

\* stats has answered for entries with the counts 0, 3 and 1
C15_Witness ==
    /\ h.kind = "stats" /\ h.pc = "final" /\ h.pending.kind = "stats"
    /\ CountsOf(h.words) = <<0, 3, 1>>

(***************************************************************************)
(* Batch runs and the store: what a run writes back.                       *)
(***************************************************************************)
\* this step is the return of the generation call of a daily run and what
\* follows it up to the first chunk send
DailyGenerated ==
    d.kind = "daily" /\ d.pc = "calling" /\ d'.pc \in {"send", "final"}

\* entry e of the store is entry f that a run loaded
SameEntry(e, f) == e.word = f.word /\ e.added_date = f.added_date

\* the step takes the persisted practice_count of every entry of loaded that
\* is in the store, and stays, from its persisted value to one more
AddsOneToPersisted(loaded) ==
    \A i \in 1..Len(loaded), j \in 1..Len(store), k \in 1..Len(store') :
        (SameEntry(store[j], loaded[i]) /\ SameEntry(store'[k], loaded[i])) =>
            store'[k].practice_count = store[j].practice_count + 1

Members(s) == {s[i].word : i \in 1..Len(s)}

\* this step is a successful add, or remove, of the word w
AddsWord(w) == Handled /\ h'.kind = "add" /\ h'.word = w /\ h'.pending.kind = "added"
RemovesWord(w) == Handled /\ h'.kind = "remove" /\ h'.word = w /\ h'.pending.kind = "removed"

\* the handler of an add, or remove, of the word w has not returned yet
Adding(w) == h.pc # "idle" /\ h.kind = "add" /\ h.word = w
Removing(w) == h.pc # "idle" /\ h.kind = "remove" /\ h.word = w

NoChunkSent(r) == \A i \in 1..Len(r.sent) : r.sent[i].kind # "chunk"

\* r is a batch run past its generation call, with a send pending
Delivering(r) == BatchRun(r) /\ r.pc \in {"send", "final"} /\ r.calls = 1

\* C18: the step in which the generation call of a practice-all or daily run
\* returns writes the store with every loaded entry's practice_count one
\* higher, before the run has sent a chunk; and when a send of the run fails
\* after that, or the run ends, the store is left as it is, so the
\* increments stay
C18_SavedBeforeDelivery ==
    [][ /\ PracticeGenerated =>
               /\ Incremented(h.words, store') /\ saves' = saves + 1
               /\ NoChunkSent(h') /\ h'.words = store'
        /\ DailyGenerated =>
               /\ Incremented(d.words, store') /\ saves' = saves + 1
               /\ NoChunkSent(d') /\ d'.words = store'
        /\ (Delivering(h) /\ h' # h) => UNCHANGED <<store, saves>>
        /\ (Delivering(d) /\ d' # d) => UNCHANGED <<store, saves>> ]_vars

\* the first chunk of a practice-all run over two entries is pending, nothing
\* of the results is delivered, and the store holds the incremented counts
C18_Witness ==
    /\ h.kind = "practice" /\ h.pc = "send" /\ h.i = 1 /\ NoChunkSent(h)
    /\ Len(h.words) = 2 /\ store = h.words
    /\ \A i \in 1..2 : store[i].practice_count = 1

(***************************************************************************)
(* remove.                                                                 *)
(***************************************************************************)
\* after is before without the entries at the positions outside keep, the
\* others in their order and as they were
KeepsExactly(before, after, keep) ==
    /\ Len(after) = Cardinality(keep)
    /\ \E f \in [1..Len(after) -> keep] :
           /\ \A a, b \in 1..Len(after) : a < b => f[a] < f[b]
           /\ \A a \in 1..Len(after) : after[a] = before[f[a]]

\* C19: a successful remove of the word w leaves the store without an entry
\* for w and with every other entry, in stored order, its word, added date
\* and practice_count as they were
C19_RemoveDeletesOnlyTheWord ==
    [][ \A args \in RemoveArgs :
            RemovesWord(Lower(JoinArgs(args))) =>
                LET w == Lower(JoinArgs(args))
                IN  /\ w \in Members(store)
                    /\ w \notin Members(store')
                    /\ saves' = saves + 1
                    /\ KeepsExactly(store, store',
                                    {i \in 1..Len(store) : store[i].word # w}) ]_vars

\* a word has been removed from a store of two entries; the other entry,
\* practised once, is there with its count
C19_Witness ==
    /\ h.kind = "remove" /\ h.pc = "final" /\ h.pending.kind = "removed"
    /\ Len(h.words) = 2 /\ Len(store) = 1
    /\ store[1].practice_count = 1 /\ store[1].word # h.word

====
